---- MODULE Spec2Model ----
(***************************************************************************)
(* A model of the HRMS semantic layer's ETL scripts:                       *)
(*   init_semantic_layer.py   (SemanticLayerInitializer.run)               *)
(*   scripts/sync_from_sqlserver.py (SQLServerSyncManager.sync_all)        *)
(* Both scripts run one after another against the same DuckDB file.  A     *)
(* string the code inspects character by character (a table name, a file   *)
(* name) is a tuple of one-character strings.                              *)
(***************************************************************************)
EXTENDS Integers, Sequences, FiniteSets, TLC

\* ---------------------------------------------------------------- bounds
\* How many script invocations one behaviour holds.
MaxRuns == 1
\* The longest name given to sanitize_duckdb_name.
MaxNameLen == 3
\* The most cache_view calls made on one database.
MaxCalls == 2

\* ------------------------------------------------------- Python helpers
\* Python's None, among string values.
NoneVal == "<None>"

\* bool(x) for a string or None.
Truthy(x) == x # NoneVal /\ x # ""

\* `a or b`.
PyOr(a, b) == IF Truthy(a) THEN a ELSE b

\* dict.get(k, default); os.getenv(k) is Get(env, k, NoneVal).
Get(d, k, default) == IF k \in DOMAIN d THEN d[k] ELSE default

\* bool(n) for an int or None, None being written as a negative number.
NoDays == -1
TruthyInt(n) == n # NoDays /\ n # 0

UpperChars == <<"A", "B", "C", "D", "E", "F", "G", "H", "I", "J", "K", "L", "M",
                "N", "O", "P", "Q", "R", "S", "T", "U", "V", "W", "X", "Y", "Z">>
LowerChars == <<"a", "b", "c", "d", "e", "f", "g", "h", "i", "j", "k", "l", "m",
                "n", "o", "p", "q", "r", "s", "t", "u", "v", "w", "x", "y", "z">>
Digits == {"0", "1", "2", "3", "4", "5", "6", "7", "8", "9"}

\* str.lower() on one character and on a string.
LowerChar(c) ==
    IF \E i \in DOMAIN UpperChars : UpperChars[i] = c
    THEN LowerChars[CHOOSE i \in DOMAIN UpperChars : UpperChars[i] = c]
    ELSE c
Lower(s) == [i \in DOMAIN s |-> LowerChar(s[i])]

\* `sub in s`.
Contains(s, sub) ==
    \E i \in 0..(Len(s) - Len(sub)) :
        \A j \in 1..Len(sub) : s[i + j] = sub[j]

\* s.strip(chars): drop the leading and trailing characters that are in chars.
RECURSIVE LStrip(_, _)
LStrip(s, chars) ==
    IF s # <<>> /\ Head(s) \in chars THEN LStrip(Tail(s), chars) ELSE s
RECURSIVE RStrip(_, _)
RStrip(s, chars) ==
    IF s # <<>> /\ s[Len(s)] \in chars
    THEN RStrip(SubSeq(s, 1, Len(s) - 1), chars) ELSE s
Strip(s, chars) == RStrip(LStrip(s, chars), chars)
QuoteChars == {"'", "\""}

\* s.replace(old, new) for a one-character old and a new of length 0 or 1.
RECURSIVE Replace(_, _, _)
Replace(s, old, new) ==
    IF s = <<>> THEN <<>>
    ELSE (IF Head(s) = old THEN new ELSE <<Head(s)>>) \o Replace(Tail(s), old, new)

\* s.split('.', 1) when '.' is in s: the text before and after the first dot.
FirstDot(s) == CHOOSE i \in DOMAIN s : s[i] = "." /\ \A j \in 1..(i - 1) : s[j] # "."
SplitFirstDot(s) ==
    [schema |-> SubSeq(s, 1, FirstDot(s) - 1),
     table  |-> SubSeq(s, FirstDot(s) + 1, Len(s))]

\* ----------------------------------------------------------- table names
ActivityLog == <<"A", "c", "t", "i", "v", "i", "t", "y", "_", "L", "o", "g">>
PayRoll == <<"P", "a", "y", " ", "R", "o", "l", "l">>
CrmcPayrollFile == <<"C", "R", "M", "C", "_", "P", "a", "y", "r", "o", "l", "l",
                     "F", "i", "l", "e">>
activity_log == <<"a", "c", "t", "i", "v", "i", "t", "y", "_", "l", "o", "g">>
RawPrefix == <<"r", "a", "w", ".">>
EnteredDate == "EnteredDate"
NoColumn == "<None>"

\* The tables create_example_raw_views imports when the config names none.
DefaultTables == <<ActivityLog, CrmcPayrollFile>>
\* sync.activity_log_days when the config does not set it.
DefaultActivityLogDays == 30

\* A faulty variant, to test C11 against: a leading digit gets no prefix.
sanitize_duckdb_name_NoPrefix(name) ==
    LET stripped == Strip(name, QuoteChars)
    IN  Lower(Replace(Replace(Replace(Replace(stripped,
            " ", <<"_">>), "$", <<>>), "-", <<"_">>), "'", <<>>))

\* SemanticLayerInitializer.sanitize_duckdb_name
sanitize_duckdb_name(name) ==
    LET stripped == Strip(name, QuoteChars)
        sanitized == Lower(Replace(Replace(Replace(Replace(stripped,
                        " ", <<"_">>), "$", <<>>), "-", <<"_">>), "'", <<>>))
    IN  IF sanitized # <<>> /\ sanitized[1] \in Digits
        THEN <<"t", "_">> \o sanitized
        ELSE sanitized

\* ------------------------------------------------------------ credentials
\* A faulty variant, to test C9 against: ValueError only when both the username
\* and the password are missing.
connect_sql_server_KeepsEmpty(environ, cfg) ==
    LET username == PyOr(Get(environ, "SQL_SERVER_USERNAME", NoneVal),
                         Get(cfg, "username", NoneVal))
        password == PyOr(Get(environ, "SQL_SERVER_PASSWORD", NoneVal),
                         Get(cfg, "password", NoneVal))
    IN  IF ~Truthy(username) /\ ~Truthy(password)
        THEN [exc |-> "ValueError", username |-> NoneVal, password |-> NoneVal]
        ELSE [exc |-> "", username |-> username, password |-> password]

\* SemanticLayerInitializer.connect_sql_server: the credentials of the engine
\* it creates, or the exception it raises.  environ is os.environ, cfg is
\* config['sql_server'].
connect_sql_server(environ, cfg) ==
    LET username == PyOr(Get(environ, "SQL_SERVER_USERNAME", NoneVal),
                         Get(cfg, "username", NoneVal))
        password == PyOr(Get(environ, "SQL_SERVER_PASSWORD", NoneVal),
                         Get(cfg, "password", NoneVal))
    IN  IF ~Truthy(username) \/ ~Truthy(password)
        THEN [exc |-> "ValueError", username |-> NoneVal, password |-> NoneVal]
        ELSE [exc |-> "", username |-> username, password |-> password]

\* ------------------------------------------------------------ view files
\* Characters in ASCII order, for comparing file names.
CharOrder == <<".">> \o <<"0", "1", "2", "3", "4", "5", "6", "7", "8", "9">>
             \o UpperChars \o <<"_">> \o LowerChars
Ord(c) == CHOOSE i \in DOMAIN CharOrder : CharOrder[i] = c

\* a < b for two strings, as Python compares them.
RECURSIVE StrLess(_, _)
StrLess(a, b) ==
    IF b = <<>> THEN FALSE
    ELSE IF a = <<>> THEN TRUE
    ELSE IF Head(a) = Head(b) THEN StrLess(Tail(a), Tail(b))
    ELSE Ord(Head(a)) < Ord(Head(b))

\* sorted(path.glob("*.sql")): the files of one directory in ascending order.
RECURSIVE sorted(_)
sorted(S) ==
    IF S = {} THEN <<>>
    ELSE LET m == CHOOSE x \in S : \A y \in S \ {x} : StrLess(x, y)
         IN  <<m>> \o sorted(S \ {m})

DotSql == <<".", "s", "q", "l">>
\* The *.sql files under models/<layer>; a layer with no directory is not in
\* the domain.
ModelFiles ==
    [staging  |-> {<<"e", "m", "p">> \o DotSql, <<"P", "a", "y">> \o DotSql},
     business |-> {<<"h", "r">> \o DotSql},
     metrics  |-> {<<"k", "p", "i">> \o DotSql}]

\* What one create_*_views call iterates over.
LayerFiles(layer) ==
    IF layer \in DOMAIN ModelFiles THEN sorted(ModelFiles[layer]) ELSE <<>>

\* ------------------------------------------------------------------ state
VARIABLES
    env,             \* os.environ after load_dotenv
    sql_config,      \* config['sql_server']
    sync_config,     \* config['sync']
    source,          \* SQL Server: table name -> its rows; a row is the age in
                     \* days of its EnteredDate at the server's GETDATE()
    schemas,         \* DuckDB: the schemas that exist
    meta,            \* DuckDB: the _metadata tables that exist
    import_log,      \* _metadata.import_log, its rows in insertion order
    data_freshness,  \* _metadata.data_freshness: table_name -> its row
    conn_info,       \* _metadata.sql_server_connection, its rows
    duck_tables,     \* DuckDB: <<schema, table>> -> the table's rows
    prog,            \* the script that runs or ran last: "none", "init", "sync"
    pc,              \* the running script's position (0: no script is running)
    idx,             \* the running loop's position
    conn,            \* the script's DuckDB connection: "none", "open", "closed"
    tables,          \* sync_all's local list of tables
    success_count,   \* sync_all's local counter
    exit,            \* how the last script ended: "", "ok", "exception"
    trace,           \* what the running (or last) script has done so far
    log0,            \* import_log as the running script found it
    fresh0,          \* data_freshness as the running script found it
    tables0,         \* duck_tables as the running script found it
    first_error,     \* the first view file whose execution raised (<<>>: none)
    runs,            \* scripts started so far
    cred,            \* CredSpec only: what connect_sql_server returned
    raw_name,        \* NameSpec only: the argument of sanitize_duckdb_name
    sanitized,       \* NameSpec only: what sanitize_duckdb_name returned
    views,           \* DuckDB: <<schema, view>> -> the rows the view yields
    materialized_views, \* _metadata.materialized_views, its rows in order
    mv_key,          \* whether materialized_views has a key on view_name
    calls,           \* CacheSpec only: the cache_view calls made so far
    app              \* AppSpec only: the dashboard's connection and session

name_vars == <<raw_name, sanitized>>
cache_vars == <<views, materialized_views, mv_key, calls>>
\* The variables of the specifications of single functions and scripts.
other_vars == <<name_vars, cache_vars, app>>

vars == <<env, sql_config, sync_config, source, schemas, meta, import_log,
          data_freshness, conn_info, duck_tables, prog, pc, idx, conn,
          tables, success_count, exit, trace, log0, fresh0, tables0,
          first_error, runs, cred, other_vars>>

config_vars == <<env, sql_config, sync_config>>
db_vars == <<schemas, meta, import_log, data_freshness, conn_info,
             duck_tables>>
start_vars == <<log0, fresh0, tables0>>

\* One entry of trace.  For a load: the source table's name, the DuckDB name
\* given, the source table's rows at the call, the rows extracted, the target
\* table after the call, the step that ended the try block ("none": no step
\* raised) and whether the call raised.  For a view file: its name and layer.
NoTable == [exists |-> FALSE, rows |-> {}]
Event(op, name, target, src, rows, after, outcome, raised, layer) ==
    [op |-> op, name |-> name, target |-> target, src |-> src, rows |-> rows,
     after |-> after, outcome |-> outcome, raised |-> raised, layer |-> layer]
StepEvent(op, raised) == Event(op, <<>>, <<>>, {}, {}, NoTable, "", raised, "")

\* ------------------------------------------------------- DuckDB statements
Raw == <<"r", "a", "w">>
Main == <<"m", "a", "i", "n">>
AllSchemas == {"_metadata", "raw", "staging", "business", "metrics", "cache"}
SchemaName(s) == IF s = Raw THEN "raw" ELSE IF s = Main THEN "main" ELSE "other"

\* The catalog entry of schema."table": identifiers are case-insensitive.
TableKey(schema, table) == <<Lower(schema), Lower(table)>>

\* DROP TABLE IF EXISTS
DropTable(tbls, key) == [k \in DOMAIN tbls \ {key} |-> tbls[k]]

\* What a SELECT * FROM key would find.
Snapshot(tbls, key) ==
    IF key \in DOMAIN tbls THEN [exists |-> TRUE, rows |-> tbls[key]] ELSE NoTable

\* CREATE TABLE key AS SELECT * FROM df
CreateTableAs(tbls, key, df) ==
    [k \in DOMAIN tbls \cup {key} |-> IF k = key THEN df ELSE tbls[k]]

\* ---------------------------------------------------------------- loaders
\* The rows of a source table ({} when SQL Server has no such table).
SourceRows(name) == IF name \in DOMAIN source THEN source[name] ELSE {}

\* The steps of a load that the environment can make raise (the network, the
\* server, the disk), and "none".  A step that must raise in the state at hand
\* (no such source table, no such schema) raises whatever is chosen.
ImportFailures == {"none", "read", "drop", "create"}
SyncFailures == {"none", "count", "read", "drop", "create"}

\* The status column of import_log and of data_freshness.
Success == <<"success">>
ErrorStatus(e) == <<"error: ", e>>
FailedStatus(e) == <<"failed: ", e>>

\* The SELECT import_table_from_sql_server builds, run on the source table.
ImportQuery(rows, date_column, days_back) ==
    IF date_column # NoColumn /\ TruthyInt(days_back)
    THEN {r \in rows : r <= days_back}
    ELSE rows

\* The DuckDB table the import writes: schema."table" when the name has a dot.
ImportTarget(duckdb_table_name) ==
    IF Contains(duckdb_table_name, <<".">>)
    THEN TableKey(SplitFirstDot(duckdb_table_name).schema,
                  SplitFirstDot(duckdb_table_name).table)
    ELSE TableKey(Main, duckdb_table_name)

\* The step at which one import raises, "log" being the INSERT into
\* import_log, or "none".
ImportFailsAt(sql_table_name, duckdb_table_name, fail) ==
    LET clean_name == Strip(sql_table_name, QuoteChars)
    IN  IF connect_sql_server(env, sql_config).exc # "" THEN "connect"
        ELSE IF clean_name \notin DOMAIN source \/ fail = "read" THEN "read"
        ELSE IF fail = "drop" THEN "drop"
        ELSE IF SchemaName(ImportTarget(duckdb_table_name)[1]) \notin schemas
                \/ fail = "create" THEN "create"
        ELSE IF "import_log" \notin meta THEN "log"
        ELSE "none"

\* A faulty variant, to test C2 against: the except branch logs nothing.
import_table_from_sql_server_NoErrorRow(sql_table_name, duckdb_table_name, date_column, days_back, fail) ==
    LET clean_name == Strip(sql_table_name, QuoteChars)
        at == ImportFailsAt(sql_table_name, duckdb_table_name, fail)
        df == IF at \in {"connect", "read"} THEN {}
              ELSE ImportQuery(source[clean_name], date_column, days_back)
        key == ImportTarget(duckdb_table_name)
    IN  [tables |-> IF at \in {"connect", "read", "drop"} THEN duck_tables
                    ELSE IF at = "create" THEN DropTable(duck_tables, key)
                    ELSE CreateTableAs(DropTable(duck_tables, key), key, df),
         log |-> IF at = "none"
                 THEN Append(import_log,
                             [table_name |-> duckdb_table_name,
                              row_count |-> Cardinality(df), status |-> Success])
                 ELSE import_log,
         df |-> df,
         raised |-> at]

\* SemanticLayerInitializer.import_table_from_sql_server, the whole call:
\* the DuckDB tables and the import_log it leaves, the rows it extracted, and
\* the step that raised ("none": it returned len(df)).
import_table_from_sql_server(sql_table_name, duckdb_table_name, date_column, days_back, fail) ==
    LET clean_name == Strip(sql_table_name, QuoteChars)
        at == ImportFailsAt(sql_table_name, duckdb_table_name, fail)
        df == IF at \in {"connect", "read"} THEN {}
              ELSE ImportQuery(source[clean_name], date_column, days_back)
        key == ImportTarget(duckdb_table_name)
    IN  [tables |-> IF at \in {"connect", "read", "drop"} THEN duck_tables
                    ELSE IF at = "create" THEN DropTable(duck_tables, key)
                    ELSE CreateTableAs(DropTable(duck_tables, key), key, df),
         log |-> IF at = "none"
                 THEN Append(import_log,
                             [table_name |-> duckdb_table_name,
                              row_count |-> Cardinality(df), status |-> Success])
                 ELSE IF "import_log" \in meta
                 THEN Append(import_log,
                             [table_name |-> duckdb_table_name,
                              row_count |-> 0, status |-> ErrorStatus(at)])
                 ELSE import_log,
         df |-> df,
         raised |-> at]

\* SQLServerSyncManager.update_metadata: INSERT OR REPLACE INTO
\* _metadata.data_freshness, which replaces the row of the same table_name.
\* The statement raises when the table does not exist.
update_metadata(table_name, row_count, status) ==
    [t \in DOMAIN data_freshness \cup {table_name} |->
        IF t = table_name
        THEN [row_count |-> row_count, status |-> status]
        ELSE data_freshness[t]]

\* The step at which one sync_table call leaves its try block: the step that
\* raised ("metadata": the update_metadata of a completed load), "skip" (the
\* early return on an empty source table) or "none".
SyncFailsAt(table_name, fail) ==
    IF table_name \notin DOMAIN source \/ fail = "count" THEN "count"
    ELSE IF Cardinality(source[table_name]) = 0 THEN "skip"
    ELSE IF fail = "read" THEN "read"
    ELSE IF fail = "drop" THEN "drop"
    ELSE IF "raw" \notin schemas \/ fail = "create" THEN "create"
    ELSE IF "data_freshness" \notin meta THEN "metadata"
    ELSE "none"

\* A faulty variant, to test C17 against: the table is dropped before the
\* source is read.
sync_table_DropsFirst(table_name, fail) ==
    LET at == SyncFailsAt(table_name, fail)
        df == IF at \in {"count", "skip"} THEN {} ELSE source[table_name]
        row_count == Cardinality(df)
        key == TableKey(Raw, table_name)
    IN  [tables |-> IF at \in {"count", "skip", "drop"} THEN duck_tables
                    ELSE IF at \in {"read", "create"}
                    THEN DropTable(duck_tables, key)
                    ELSE CreateTableAs(DropTable(duck_tables, key), key, df),
         fresh |-> IF at = "skip" \/ "data_freshness" \notin meta
                   THEN data_freshness
                   ELSE IF at = "none"
                   THEN update_metadata(table_name, row_count, Success)
                   ELSE update_metadata(table_name, 0, FailedStatus(at)),
         df |-> df,
         at |-> at,
         raised |-> at \notin {"none", "skip"} /\ "data_freshness" \notin meta]

\* A faulty variant, to test C5 against: the rows are added to the table that
\* is there (INSERT INTO) instead of replacing it.
sync_table_Appends(table_name, fail) ==
    LET at == SyncFailsAt(table_name, fail)
        df == IF at \in {"count", "skip"} THEN {} ELSE source[table_name]
        row_count == Cardinality(df)
        key == TableKey(Raw, table_name)
        old == IF key \in DOMAIN duck_tables THEN duck_tables[key] ELSE {}
    IN  [tables |-> IF at \in {"count", "skip", "read", "drop", "create"}
                    THEN duck_tables
                    ELSE CreateTableAs(duck_tables, key, old \cup df),
         fresh |-> IF at = "skip" \/ "data_freshness" \notin meta
                   THEN data_freshness
                   ELSE IF at = "none"
                   THEN update_metadata(table_name, row_count, Success)
                   ELSE update_metadata(table_name, 0, FailedStatus(at)),
         df |-> df,
         at |-> at,
         raised |-> at \notin {"none", "skip"} /\ "data_freshness" \notin meta]

\* SQLServerSyncManager.sync_table, the whole call: the DuckDB tables and the
\* data_freshness it leaves, the rows it extracted, the step that ended the try
\* block, and whether the call raised to its caller.
sync_table(table_name, fail) ==
    LET at == SyncFailsAt(table_name, fail)
        df == IF at \in {"count", "skip"} THEN {} ELSE source[table_name]
        row_count == Cardinality(df)
        key == TableKey(Raw, table_name)
    IN  [tables |-> IF at \in {"count", "skip", "read", "drop"} THEN duck_tables
                    ELSE IF at = "create" THEN DropTable(duck_tables, key)
                    ELSE CreateTableAs(DropTable(duck_tables, key), key, df),
         fresh |-> IF at = "skip" \/ "data_freshness" \notin meta
                   THEN data_freshness
                   ELSE IF at = "none"
                   THEN update_metadata(table_name, row_count, Success)
                   ELSE update_metadata(table_name, 0, FailedStatus(at)),
         df |-> df,
         at |-> at,
         raised |-> at \notin {"none", "skip"} /\ "data_freshness" \notin meta]

\* SQLServerSyncManager.get_table_list: the lists it can return.
RECURSIVE Orderings(_)
Orderings(S) ==
    IF S = {} THEN {<<>>}
    ELSE UNION {{<<x>> \o o : o \in Orderings(S \ {x})} : x \in S}
get_table_list ==
    IF "tables" \in DOMAIN sync_config
    THEN {sync_config["tables"]}
    ELSE Orderings(DOMAIN source)

\* The list create_example_raw_views loops over.
ImportTables ==
    LET configured == Get(sync_config, "tables", <<>>)
    IN  IF configured = <<>> THEN DefaultTables ELSE configured

\* activity_log_days in create_example_raw_views.
activity_log_days == Get(sync_config, "activity_log_days", DefaultActivityLogDays)

\* is_activity_log in create_example_raw_views.
is_activity_log(sql_table) == Contains(Lower(sql_table), activity_log)

\* ------------------------------------------------- init_semantic_layer.py
\* A faulty variant, to test C1 against: the import comes before the schemas
\* and the metadata tables.
RunSteps_ImportFirst ==
    <<"connect", "create_example_raw_views", "create_schemas",
      "create_metadata_tables", "setup_sql_server_attachment",
      "create_raw_view_helpers", "create_staging_views",
      "create_business_views", "create_metrics", "close">>

\* SemanticLayerInitializer.run: its calls, in order.
RunSteps ==
    <<"connect", "create_schemas", "create_metadata_tables",
      "setup_sql_server_attachment", "create_raw_view_helpers",
      "create_example_raw_views", "create_staging_views",
      "create_business_views", "create_metrics", "close">>

AtStep(name) == prog = "init" /\ pc \in DOMAIN RunSteps /\ RunSteps[pc] = name

\* The script ends: normally, or with an exception nobody caught.
Exit(status) == prog' = prog /\ pc' = 0 /\ idx' = 0 /\ exit' = status

\* `python init_semantic_layer.py`
StartInit ==
    /\ pc = 0 /\ runs < MaxRuns
    /\ prog' = "init" /\ pc' = 1 /\ idx' = 1 /\ runs' = runs + 1
    /\ conn' = "none" /\ exit' = "" /\ trace' = <<>>
    /\ tables' = <<>> /\ success_count' = 0
    /\ log0' = import_log /\ fresh0' = data_freshness /\ tables0' = duck_tables
    /\ first_error' = <<>>
    /\ UNCHANGED <<config_vars, source, db_vars, cred, other_vars>>

Connect ==
    /\ AtStep("connect")
    /\ conn' = "open"
    /\ trace' = Append(trace, StepEvent("connect", FALSE))
    /\ pc' = pc + 1
    /\ UNCHANGED <<config_vars, source, db_vars, prog, idx, tables,
                   success_count, exit, start_vars, first_error, runs, cred, other_vars>>

CreateSchemas ==
    /\ AtStep("create_schemas")
    /\ schemas' = schemas \cup AllSchemas
    /\ trace' = Append(trace, StepEvent("create_schemas", FALSE))
    /\ pc' = pc + 1
    /\ UNCHANGED <<config_vars, source, meta, import_log, data_freshness,
                   conn_info, duck_tables, prog, idx, conn, tables,
                   success_count, exit, start_vars, first_error, runs, cred, other_vars>>

CreateMetadataTables ==
    /\ AtStep("create_metadata_tables")
    /\ meta' = meta \cup {"materialized_views", "data_quality"}
    /\ trace' = Append(trace, StepEvent("create_metadata_tables", FALSE))
    /\ pc' = pc + 1
    /\ UNCHANGED <<config_vars, source, schemas, import_log, data_freshness,
                   conn_info, duck_tables, prog, idx, conn, tables,
                   success_count, exit, start_vars, first_error, runs, cred, other_vars>>

\* A faulty variant, to test C8 against: the failure of the connection test is
\* caught, and run() goes on.
SetupSqlServerAttachment_Continues ==
    /\ AtStep("setup_sql_server_attachment")
    /\ \E ok \in BOOLEAN :
        IF connect_sql_server(env, sql_config).exc # "" \/ ~ok
        THEN /\ trace' = Append(trace,
                                StepEvent("setup_sql_server_attachment", TRUE))
             /\ pc' = pc + 1
             /\ UNCHANGED <<db_vars, prog, idx, exit>>
        ELSE /\ meta' = meta \cup {"sql_server_connection"}
             /\ conn_info' = {<<sql_config["host"], sql_config["database"]>>}
             /\ trace' = Append(trace,
                                StepEvent("setup_sql_server_attachment", FALSE))
             /\ pc' = pc + 1
             /\ UNCHANGED <<schemas, import_log, data_freshness, duck_tables,
                            prog, idx, exit>>
    /\ UNCHANGED <<config_vars, source, conn, tables, success_count, start_vars,
                   first_error, runs, cred, other_vars>>

\* The connection test: connect_sql_server raises on missing credentials, and
\* the SELECT 1 raises when the server cannot be reached (ok = FALSE).
SetupSqlServerAttachment ==
    /\ AtStep("setup_sql_server_attachment")
    /\ \E ok \in BOOLEAN :
        IF connect_sql_server(env, sql_config).exc # "" \/ ~ok
        THEN /\ trace' = Append(trace,
                                StepEvent("setup_sql_server_attachment", TRUE))
             /\ Exit("exception")
             /\ UNCHANGED db_vars
        ELSE /\ meta' = meta \cup {"sql_server_connection"}
             /\ conn_info' = {<<sql_config["host"], sql_config["database"]>>}
             /\ trace' = Append(trace,
                                StepEvent("setup_sql_server_attachment", FALSE))
             /\ pc' = pc + 1
             /\ UNCHANGED <<schemas, import_log, data_freshness, duck_tables,
                            prog, idx, exit>>
    /\ UNCHANGED <<config_vars, source, conn, tables, success_count, start_vars,
                   first_error, runs, cred, other_vars>>

CreateRawViewHelpers ==
    /\ AtStep("create_raw_view_helpers")
    /\ meta' = meta \cup {"import_log"}
    /\ trace' = Append(trace, StepEvent("create_raw_view_helpers", FALSE))
    /\ pc' = pc + 1
    /\ UNCHANGED <<config_vars, source, schemas, import_log, data_freshness,
                   conn_info, duck_tables, prog, idx, conn, tables,
                   success_count, exit, start_vars, first_error, runs, cred, other_vars>>

\* One turn of the loop of create_example_raw_views: the import of table idx,
\* whose exception the loop catches.
CreateExampleRawViews ==
    /\ AtStep("create_example_raw_views")
    /\ \E fail \in ImportFailures :
        LET sql_table == ImportTables[idx]
            duckdb_table == RawPrefix \o sanitize_duckdb_name(sql_table)
            r == IF is_activity_log(sql_table)
                 THEN import_table_from_sql_server(sql_table, duckdb_table,
                          EnteredDate, activity_log_days, fail)
                 ELSE import_table_from_sql_server(sql_table, duckdb_table,
                          NoColumn, NoDays, fail)
        IN  /\ duck_tables' = r.tables
            /\ import_log' = r.log
            /\ trace' = Append(trace,
                   Event("import", sql_table, duckdb_table,
                         SourceRows(Strip(sql_table, QuoteChars)), r.df,
                         Snapshot(r.tables, ImportTarget(duckdb_table)),
                         r.raised, r.raised # "none", ""))
    /\ IF idx = Len(ImportTables)
       THEN pc' = pc + 1 /\ idx' = 1
       ELSE pc' = pc /\ idx' = idx + 1
    /\ UNCHANGED <<config_vars, source, schemas, meta, data_freshness,
                   conn_info, prog, conn, tables, success_count, exit, start_vars,
                   first_error, runs, cred, other_vars>>

\* A faulty variant, to test C7 against: the exception of a file is not
\* caught, and ends run().
CreateViews_AbortsOnError(layer) ==
    /\ IF LayerFiles(layer) = <<>>
       THEN /\ pc' = pc + 1 /\ idx' = 1
            /\ UNCHANGED <<trace, first_error, prog, exit>>
       ELSE \E ok \in BOOLEAN :
              /\ trace' = Append(trace,
                     Event("exec", LayerFiles(layer)[idx], <<>>, {}, {},
                           NoTable, "", FALSE, layer))
              /\ first_error' = IF ~ok /\ first_error = <<>>
                                THEN LayerFiles(layer)[idx] ELSE first_error
              /\ IF ~ok THEN Exit("exception")
                 ELSE /\ UNCHANGED <<prog, exit>>
                      /\ IF idx >= Len(LayerFiles(layer))
                         THEN pc' = pc + 1 /\ idx' = 1
                         ELSE pc' = pc /\ idx' = idx + 1
    /\ UNCHANGED <<config_vars, source, schemas, meta, import_log,
                   data_freshness, conn_info, duck_tables, conn, tables,
                   success_count, start_vars, runs, cred, other_vars>>

\* One turn of the loop of a create_*_views call: file idx of the layer is
\* executed, and its exception caught.  A layer without files is passed over.
\* What the SQL of a file does to the database is not modelled: the files are
\* data, and no loader reads what they create.
CreateViews(layer) ==
    /\ IF LayerFiles(layer) = <<>>
       THEN UNCHANGED <<trace, first_error>>
       ELSE \E ok \in BOOLEAN :
              /\ trace' = Append(trace,
                     Event("exec", LayerFiles(layer)[idx], <<>>, {}, {},
                           NoTable, "", FALSE, layer))
              /\ first_error' = IF ~ok /\ first_error = <<>>
                                THEN LayerFiles(layer)[idx] ELSE first_error
    /\ IF idx >= Len(LayerFiles(layer))
       THEN pc' = pc + 1 /\ idx' = 1
       ELSE pc' = pc /\ idx' = idx + 1
    /\ UNCHANGED <<config_vars, source, schemas, meta, import_log,
                   data_freshness, conn_info, duck_tables, prog, conn, tables,
                   success_count, exit, start_vars, runs, cred, other_vars>>

CreateStagingViews == AtStep("create_staging_views") /\ CreateViews("staging")
CreateBusinessViews == AtStep("create_business_views") /\ CreateViews("business")
CreateMetrics == AtStep("create_metrics") /\ CreateViews("metrics")

\* The end of run(): self.conn.close().
Close ==
    /\ AtStep("close")
    /\ conn' = "closed"
    /\ trace' = Append(trace, StepEvent("close", FALSE))
    /\ Exit("ok")
    /\ UNCHANGED <<config_vars, source, db_vars, tables, success_count, start_vars,
                   first_error, runs, cred, other_vars>>

\* --------------------------------------------- scripts/sync_from_sqlserver.py
\* `python scripts/sync_from_sqlserver.py`
StartSync ==
    /\ pc = 0 /\ runs < MaxRuns
    /\ prog' = "sync" /\ pc' = 1 /\ idx' = 1 /\ runs' = runs + 1
    /\ conn' = "none" /\ exit' = "" /\ trace' = <<>>
    /\ tables' = <<>> /\ success_count' = 0
    /\ log0' = import_log /\ fresh0' = data_freshness /\ tables0' = duck_tables
    /\ first_error' = <<>>
    /\ UNCHANGED <<config_vars, source, db_vars, cred, other_vars>>

\* sync_all up to its loop: the two connections, CREATE SCHEMA IF NOT EXISTS
\* raw, get_table_list.  pyodbc.connect raises when the server cannot be
\* reached (ok = FALSE) and config['sql_server'] must hold both credentials.
SyncAllBegin ==
    /\ prog = "sync" /\ pc = 1
    /\ \E ok \in BOOLEAN, list \in get_table_list :
        IF ~ok \/ {"username", "password"} \ DOMAIN sql_config # {}
        THEN /\ trace' = Append(trace, StepEvent("connect_sql_server", TRUE))
             /\ Exit("exception")
             /\ UNCHANGED <<schemas, conn, tables>>
        ELSE /\ conn' = "open"
             /\ schemas' = schemas \cup {"raw"}
             /\ tables' = list
             /\ trace' = Append(trace, StepEvent("connect_sql_server", FALSE))
             /\ pc' = 2 /\ idx' = 1
             /\ UNCHANGED <<prog, exit>>
    /\ UNCHANGED <<config_vars, source, meta, import_log, data_freshness,
                   conn_info, duck_tables, success_count, start_vars,
                   first_error, runs, cred, other_vars>>

\* A faulty variant, to test C6 against: the loop stops at the first table
\* that raises.
SyncAllLoop_StopsAtError ==
    /\ prog = "sync" /\ pc = 2 /\ idx <= Len(tables)
    /\ \E fail \in SyncFailures :
        LET r == sync_table(tables[idx], fail)
        IN  /\ duck_tables' = r.tables
            /\ data_freshness' = r.fresh
            /\ success_count' = IF r.raised THEN success_count
                                ELSE success_count + 1
            /\ trace' = Append(trace,
                   Event("sync", tables[idx], tables[idx],
                         SourceRows(tables[idx]), r.df,
                         Snapshot(r.tables, TableKey(Raw, tables[idx])),
                         r.at, r.raised, ""))
            /\ idx' = IF r.raised THEN Len(tables) + 1 ELSE idx + 1
    /\ UNCHANGED <<config_vars, source, schemas, meta, import_log, conn_info,
                   prog, pc, conn, tables, exit, start_vars,
                   first_error, runs, cred, other_vars>>

\* One turn of the loop of sync_all: sync_table on table idx, counted unless
\* it raised.
SyncAllLoop ==
    /\ prog = "sync" /\ pc = 2 /\ idx <= Len(tables)
    /\ \E fail \in SyncFailures :
        LET r == sync_table(tables[idx], fail)
        IN  /\ duck_tables' = r.tables
            /\ data_freshness' = r.fresh
            /\ success_count' = IF r.raised THEN success_count
                                ELSE success_count + 1
            /\ trace' = Append(trace,
                   Event("sync", tables[idx], tables[idx],
                         SourceRows(tables[idx]), r.df,
                         Snapshot(r.tables, TableKey(Raw, tables[idx])),
                         r.at, r.raised, ""))
    /\ idx' = idx + 1
    /\ UNCHANGED <<config_vars, source, schemas, meta, import_log, conn_info,
                   prog, pc, conn, tables, exit, start_vars,
                   first_error, runs, cred, other_vars>>

\* The end of sync_all (success_count is what it prints) and the close() of
\* the script's finally block.
SyncAllFinish ==
    /\ prog = "sync" /\ pc = 2 /\ idx > Len(tables)
    /\ conn' = "closed"
    /\ trace' = Append(trace, StepEvent("close", FALSE))
    /\ Exit("ok")
    /\ UNCHANGED <<config_vars, source, db_vars, tables, success_count, start_vars,
                   first_error, runs, cred, other_vars>>

\* ------------------------------------------------------------ environment
\* SQL Server is live while the scripts run: rows are added and removed, and
\* age.  Two of its states, and the change from the first to the second.
Source1 ==
    [t \in {ActivityLog, PayRoll} |->
        IF t = ActivityLog THEN {0, 10, 40} ELSE {0, 10}]
Source2 ==
    [t \in {ActivityLog, PayRoll} |->
        IF t = ActivityLog THEN {5, 40} ELSE {}]
Sources == {Source1, Source2}

SourceChange ==
    /\ pc # 0 \/ runs < MaxRuns
    /\ source = Source1
    /\ source' = Source2
    /\ UNCHANGED <<config_vars, db_vars, prog, pc, idx, conn, tables,
                   success_count, exit, trace, start_vars, first_error, runs, cred, other_vars>>

\* os.environ and config['sql_server'] of the runs modelled.
ServerConfig == [host |-> "hrms-sql", database |-> "HRMS"]
Credentials ==
    {<<[SQL_SERVER_USERNAME |-> "env_user", SQL_SERVER_PASSWORD |-> "env_pw"],
       ServerConfig>>,
     <<[SQL_SERVER_PASSWORD |-> ""],
       [host |-> "hrms-sql", database |-> "HRMS",
        username |-> "cfg_user", password |-> "cfg_pw"]>>,
     <<[SQL_SERVER_USERNAME |-> "env_user"],
       [host |-> "hrms-sql", database |-> "HRMS", username |-> "cfg_user"]>>}

\* config['sync'] of the runs modelled.
SyncConfigs ==
    {[tables |-> <<PayRoll, ActivityLog>>],
     [tables |-> <<ActivityLog, ActivityLog>>, activity_log_days |-> 7],
     [activity_log_days |-> 0]}

NotCalled == [exc |-> "not called", username |-> NoneVal, password |-> NoneVal]

\* A DuckDB file no script has written yet; _metadata.data_freshness, which no
\* script creates, is there when somebody created it by hand.
FreshDatabase ==
    /\ schemas \in {{"main"}, {"main", "_metadata"}}
    /\ meta = IF "_metadata" \in schemas THEN {"data_freshness"} ELSE {}
    /\ import_log = <<>>
    /\ data_freshness = <<>>
    /\ conn_info = {}
    /\ duck_tables = <<>>

\* sanitize_duckdb_name has not been called.
NotSanitized == <<NoneVal>>
NoNameCall == raw_name = <<>> /\ sanitized = NotSanitized
\* Nothing of the other specifications has run.
\* No view is installed and cache_view has not been called.
NoCacheCall ==
    /\ views = <<>> /\ materialized_views = <<>> /\ mv_key = FALSE
    /\ calls = <<>>
\* The dashboard has not been started.
NoSql == [kind |-> "none", target |-> <<>>]
NotStarted ==
    [state |-> "start", read_only |-> FALSE, page |-> "none",
     generated_sql |-> NoSql, query_result |-> NoneVal, query_error |-> NoneVal]
NoOtherCall == NoNameCall /\ NoCacheCall /\ app = NotStarted

NoScript ==
    /\ prog = "none" /\ pc = 0 /\ idx = 0 /\ conn = "none"
    /\ tables = <<>> /\ success_count = 0 /\ exit = "" /\ trace = <<>>
    /\ log0 = <<>> /\ fresh0 = <<>> /\ tables0 = <<>> /\ runs = 0
    /\ first_error = <<>>

Init ==
    /\ \E c \in Credentials : env = c[1] /\ sql_config = c[2]
    /\ sync_config \in SyncConfigs
    /\ source \in Sources
    /\ FreshDatabase
    /\ NoScript
    /\ cred = NotCalled
    /\ NoOtherCall

Next ==
    \/ StartInit
    \/ Connect
    \/ CreateSchemas
    \/ CreateMetadataTables
    \/ SetupSqlServerAttachment
    \/ CreateRawViewHelpers
    \/ CreateExampleRawViews
    \/ CreateStagingViews
    \/ CreateBusinessViews
    \/ CreateMetrics
    \/ Close
    \/ StartSync
    \/ SyncAllBegin
    \/ SyncAllLoop
    \/ SyncAllFinish
    \/ SourceChange

Spec == Init /\ [][Next]_vars

\* ------------------------------------------ connect_sql_server on its own
\* Every combination of a variable or key that is absent, empty or set.
EnvValue == [SQL_SERVER_USERNAME |-> "env_user", SQL_SERVER_PASSWORD |-> "env_pw"]
ConfigValue == [username |-> "cfg_user", password |-> "cfg_pw"]
Settings(value) ==
    UNION {{[k \in D |-> IF k \in E THEN "" ELSE value[k]] : E \in SUBSET D} :
           D \in SUBSET DOMAIN value}

CredInit ==
    /\ env \in Settings(EnvValue)
    /\ \E c \in Settings(ConfigValue) :
          sql_config = [k \in DOMAIN c \cup DOMAIN ServerConfig |->
                           IF k \in DOMAIN c THEN c[k] ELSE ServerConfig[k]]
    /\ sync_config = [tables |-> <<>>]
    /\ source = Source1
    /\ schemas = {"main"} /\ meta = {} /\ import_log = <<>>
    /\ data_freshness = <<>> /\ conn_info = {} /\ duck_tables = <<>>
    /\ NoScript
    /\ cred = NotCalled
    /\ NoOtherCall

\* One call of connect_sql_server.
CallConnectSqlServer ==
    /\ cred = NotCalled
    /\ cred' = connect_sql_server(env, sql_config)
    /\ UNCHANGED <<config_vars, source, db_vars, prog, pc, idx, conn, tables,
                   success_count, exit, trace, start_vars, first_error, runs,
                   other_vars>>

CredNext == CallConnectSqlServer

CredSpec == CredInit /\ [][CredNext]_vars

\* -------------------------------------- sanitize_duckdb_name on its own
\* The characters of the names given: those the function treats specially, a
\* double quote, and a letter in each case.
NameChars == {" ", "$", "-", "'", "\"", "A", "a", "1", "_"}
RECURSIVE NamesUpTo(_)
NamesUpTo(n) ==
    IF n = 0 THEN {<<>>}
    ELSE NamesUpTo(n - 1)
         \cup {Append(w, c) : w \in {x \in NamesUpTo(n - 1) : Len(x) = n - 1},
                               c \in NameChars}

\* Everything but the name is as in CredSpec, and stays so.
NameInit ==
    /\ env = [SQL_SERVER_USERNAME |-> "env_user"]
    /\ sql_config = ServerConfig
    /\ sync_config = [tables |-> <<>>]
    /\ source = Source1
    /\ schemas = {"main"} /\ meta = {} /\ import_log = <<>>
    /\ data_freshness = <<>> /\ conn_info = {} /\ duck_tables = <<>>
    /\ NoScript
    /\ cred = NotCalled
    /\ raw_name \in NamesUpTo(MaxNameLen)
    /\ sanitized = NotSanitized
    /\ NoCacheCall
    /\ app = NotStarted

\* One call of sanitize_duckdb_name.
CallSanitizeDuckdbName ==
    /\ sanitized = NotSanitized
    /\ sanitized' = sanitize_duckdb_name(raw_name)
    /\ UNCHANGED <<config_vars, source, db_vars, prog, pc, idx, conn, tables,
                   success_count, exit, trace, start_vars, first_error, runs,
                   cred, raw_name, cache_vars, app>>

NameNext == CallSanitizeDuckdbName

NameSpec == NameInit /\ [][NameNext]_vars

\* ------------------------------------------------- scripts/cache_view.py
Business == <<"b", "u", "s", "i", "n", "e", "s", "s">>
Metrics == <<"m", "e", "t", "r", "i", "c", "s">>
Cache == <<"c", "a", "c", "h", "e">>

\* view_name.split('.'): the texts between the dots.
RECURSIVE Split(_)
Split(s) ==
    IF ~Contains(s, <<".">>) THEN <<s>>
    ELSE <<SplitFirstDot(s).schema>> \o Split(SplitFirstDot(s).table)

\* schema and table in cache_view; the unpacking of a split into other than
\* two texts raises ValueError.
Unpacks(view_name) == Contains(view_name, <<".">>) => Len(Split(view_name)) = 2
CacheSource(view_name) ==
    IF Contains(view_name, <<".">>)
    THEN [schema |-> Split(view_name)[1], table |-> Split(view_name)[2]]
    ELSE [schema |-> Business, table |-> view_name]

\* The check on information_schema.tables.
ViewExists(view_name) ==
    <<CacheSource(view_name).schema, CacheSource(view_name).table>>
        \in DOMAIN views

\* INSERT OR REPLACE INTO _metadata.materialized_views on a table with a key
\* on view_name: the row of that name is replaced, or the row added.
InsertOrReplace(rows, row) ==
    IF \E i \in DOMAIN rows : rows[i].view_name = row.view_name
    THEN [i \in DOMAIN rows |->
             IF rows[i].view_name = row.view_name THEN row ELSE rows[i]]
    ELSE Append(rows, row)

\* INSERT OR REPLACE needs a PRIMARY KEY or UNIQUE constraint to find the
\* conflicting row with: on a table without one (as create_metadata_tables
\* makes it) DuckDB raises a Binder Error.
CanRecord == "materialized_views" \in meta /\ mv_key

\* The steps of cache_view the environment can make raise, and "none".
CacheFailures == {"none", "check", "drop", "create"}

\* The step that ends the try block of cache_view: the step that raised
\* ("split": the unpacking; "record": the INSERT OR REPLACE of the success
\* row), "missing" (the return when the view does not exist) or "none".
CacheFailsAt(view_name, fail) ==
    IF ~Unpacks(view_name) THEN "split"
    ELSE IF fail = "check" THEN "check"
    ELSE IF ~ViewExists(view_name) THEN "missing"
    ELSE IF fail = "drop" THEN "drop"
    ELSE IF fail = "create" \/ "cache" \notin schemas THEN "create"
    ELSE IF ~CanRecord THEN "record"
    ELSE "none"

\* A faulty variant, to test C13 against: the cache table is dropped before
\* the view is looked for.
cache_view_DropsFirst(view_name, fail) ==
    LET at == CacheFailsAt(view_name, fail)
        src == CacheSource(view_name)
        key == TableKey(Cache, src.table)
        df == views[<<src.schema, src.table>>]
    IN  [tables |-> IF at \in {"split", "check", "drop"} THEN duck_tables
                    ELSE IF at \in {"create", "missing"}
                    THEN DropTable(duck_tables, key)
                    ELSE CreateTableAs(DropTable(duck_tables, key), key, df),
         mv |-> IF at = "missing" \/ ~CanRecord THEN materialized_views
                ELSE IF at = "none"
                THEN InsertOrReplace(materialized_views,
                         [view_name |-> view_name, row_count |-> Cardinality(df),
                          refresh_status |-> Success])
                ELSE InsertOrReplace(materialized_views,
                         [view_name |-> view_name, row_count |-> 0,
                          refresh_status |-> FailedStatus(at)]),
         at |-> at,
         raised |-> at \notin {"none", "missing"} /\ ~CanRecord,
         conn |-> "closed"]

\* cache_view, the whole call: the DuckDB tables and the materialized_views
\* it leaves, the step that ended the try block, whether the call raised to
\* its caller, and the connection after the finally block.
cache_view(view_name, fail) ==
    LET at == CacheFailsAt(view_name, fail)
        src == CacheSource(view_name)
        key == TableKey(Cache, src.table)
        df == views[<<src.schema, src.table>>]
    IN  [tables |-> IF at \in {"split", "check", "missing", "drop"}
                    THEN duck_tables
                    ELSE IF at = "create" THEN DropTable(duck_tables, key)
                    ELSE CreateTableAs(DropTable(duck_tables, key), key, df),
         mv |-> IF at = "missing" \/ ~CanRecord THEN materialized_views
                ELSE IF at = "none"
                THEN InsertOrReplace(materialized_views,
                         [view_name |-> view_name, row_count |-> Cardinality(df),
                          refresh_status |-> Success])
                ELSE InsertOrReplace(materialized_views,
                         [view_name |-> view_name, row_count |-> 0,
                          refresh_status |-> FailedStatus(at)]),
         at |-> at,
         raised |-> at \notin {"none", "missing"} /\ ~CanRecord,
         conn |-> "closed"]

\* The views installed, and what they yield, at two moments.
ViewE == <<"e">>
ViewX == <<"x">>
Views1 ==
    [v \in {<<Business, ViewE>>, <<Metrics, ViewE>>} |->
        IF v[1] = Business THEN {1, 2} ELSE {3}]
Views2 ==
    [v \in {<<Business, ViewE>>, <<Metrics, ViewE>>} |->
        IF v[1] = Business THEN {1, 2, 4} ELSE {3}]

\* The view names given on the command line: a view of schema business
\* without and with its schema, a view of another schema with the same name,
\* a view that is not there, and a name with two dots.
ViewNames ==
    {ViewE, Business \o <<".">> \o ViewE, Metrics \o <<".">> \o ViewE,
     Business \o <<".">> \o ViewX, Business \o <<".">> \o ViewE \o <<".">> \o ViewX}

\* The rows of the tables the views read change.
ViewChange ==
    /\ views = Views1 /\ calls # <<>>
    /\ views' = Views2
    /\ UNCHANGED <<config_vars, source, db_vars, prog, pc, idx, conn, tables,
                   success_count, exit, trace, start_vars, first_error, runs,
                   cred, name_vars, materialized_views, mv_key, calls, app>>

\* A database the initializer has prepared, with a cache table left from a
\* view that has since been dropped.  materialized_views has a key on view_name
\* only when somebody created it by hand before the initializer ran (CREATE
\* TABLE IF NOT EXISTS then keeps it), and only then can it hold a row.
CacheInit ==
    /\ env = [SQL_SERVER_USERNAME |-> "env_user"]
    /\ sql_config = ServerConfig
    /\ sync_config = [tables |-> <<>>]
    /\ source = Source1
    /\ schemas = AllSchemas \cup {"main"}
    /\ meta = {"materialized_views", "data_quality", "sql_server_connection",
               "import_log"}
    /\ import_log = <<>> /\ data_freshness = <<>>
    /\ conn_info = {<<ServerConfig["host"], ServerConfig["database"]>>}
    /\ duck_tables = [k \in {TableKey(Cache, ViewX)} |-> {9}]
    /\ NoScript
    /\ cred = NotCalled
    /\ NoNameCall
    /\ views = Views1
    /\ mv_key \in BOOLEAN
    /\ materialized_views =
          IF mv_key
          THEN <<[view_name |-> Business \o <<".">> \o ViewX, row_count |-> 1,
                  refresh_status |-> Success]>>
          ELSE <<>>
    /\ calls = <<>>
    /\ app = NotStarted

\* The rows materialized_views holds for one view name.
RowsOf(mv, view_name) ==
    SelectSeq(mv, LAMBDA r : r.view_name = view_name)

\* `python scripts/cache_view.py <view_name>`: one call of cache_view, and
\* what the call found and left.
CallCacheView ==
    /\ Len(calls) < MaxCalls
    /\ \E view_name \in ViewNames, fail \in CacheFailures :
        LET r == cache_view(view_name, fail)
            found == Unpacks(view_name) /\ ViewExists(view_name)
            key == IF Unpacks(view_name)
                   THEN TableKey(Cache, CacheSource(view_name).table)
                   ELSE <<>>
        IN  /\ duck_tables' = r.tables
            /\ materialized_views' = r.mv
            /\ conn' = r.conn
            /\ calls' = Append(calls,
                   [view_name |-> view_name, fail |-> fail, found |-> found,
                    src |-> IF found
                            THEN views[<<CacheSource(view_name).schema,
                                         CacheSource(view_name).table>>]
                            ELSE {},
                    before |-> duck_tables, mv_before |-> materialized_views,
                    after |-> r.tables, mv_after |-> r.mv, key |-> key,
                    at |-> r.at, raised |-> r.raised, conn |-> r.conn])
    /\ UNCHANGED <<config_vars, source, schemas, meta, import_log,
                   data_freshness, conn_info, prog, pc, idx, tables,
                   success_count, exit, trace, start_vars, first_error, runs,
                   cred, name_vars, views, mv_key, app>>

CacheNext == CallCacheView \/ ViewChange

CacheSpec == CacheInit /\ [][CacheNext]_vars

\* ------------------------------------------------------------------ app.py
\* get_connection, with a database file that is not opened read-only, to test
\* C16 against.
get_connection_ReadWrite == [read_only |-> FALSE]

\* get_connection: duckdb.connect(str(db_path), read_only=True).  INSTALL and
\* LOAD of the extensions write nothing to the database.
get_connection == [read_only |-> TRUE]

\* The pages of the sidebar.
AIQuery == "AI Query"
Pages ==
    {"Executive Dashboard", "Workforce Demographics", "Detailed Attendance",
     "Payroll Analytics", "Employees", "Benefits", "Activity Log", AIQuery}

\* The database the dashboard is started on.
AppTables == [k \in {TableKey(Raw, ActivityLog)} |-> {5, 40}]
AppViews == Views1

\* The SQL a model can generate and a user can type: a statement of each kind
\* on a table, on a view and on a name that is not there.
SqlKinds ==
    {"select", "insert", "delete", "drop_table", "create_table", "drop_view",
     "create_view"}
SqlTargets == {TableKey(Raw, ActivityLog), <<Business, ViewE>>, <<Cache, ViewE>>}
Statements == [kind : SqlKinds, target : SqlTargets]

\* conn.execute(sql) on a connection opened with the given read_only: the
\* tables and views it leaves, and the error it raises (NoneVal: none).  A
\* read-only connection raises on every statement that is not a query.
Execute(read_only, sql, tbls, vws) ==
    LET t == sql.target
        same(e) == [tables |-> tbls, views |-> vws, error |-> e]
    IN  IF sql.kind = "select"
        THEN same(IF t \in DOMAIN tbls \cup DOMAIN vws THEN NoneVal ELSE "catalog")
        ELSE IF read_only THEN same("read-only")
        ELSE IF sql.kind \in {"insert", "delete", "drop_table"}
        THEN IF t \notin DOMAIN tbls THEN same("catalog")
             ELSE [tables |-> IF sql.kind = "insert"
                              THEN [tbls EXCEPT ![t] = @ \cup {7}]
                              ELSE IF sql.kind = "delete"
                              THEN [tbls EXCEPT ![t] = {}]
                              ELSE DropTable(tbls, t),
                   views |-> vws, error |-> NoneVal]
        ELSE IF sql.kind = "create_table"
        THEN IF t \in DOMAIN tbls \cup DOMAIN vws THEN same("catalog")
             ELSE [tables |-> CreateTableAs(tbls, t, {}), views |-> vws,
                   error |-> NoneVal]
        ELSE IF sql.kind = "drop_view"
        THEN IF t \notin DOMAIN vws THEN same("catalog")
             ELSE [tables |-> tbls,
                   views |-> [k \in DOMAIN vws \ {t} |-> vws[k]],
                   error |-> NoneVal]
        ELSE IF t \in DOMAIN tbls \cup DOMAIN vws THEN same("catalog")
             ELSE [tables |-> tbls,
                   views |-> [k \in DOMAIN vws \cup {t} |->
                                 IF k = t THEN {} ELSE vws[k]],
                   error |-> NoneVal]

\* The query a page other than AI Query runs through run_query.
PageQuery(page) ==
    IF page = "Activity Log"
    THEN [kind |-> "select", target |-> TableKey(Raw, ActivityLog)]
    ELSE [kind |-> "select", target |-> <<Business, ViewE>>]

AppInit ==
    /\ env = [SQL_SERVER_USERNAME |-> "env_user"]
    /\ sql_config = ServerConfig
    /\ sync_config = [tables |-> <<>>]
    /\ source = Source1
    /\ schemas = AllSchemas \cup {"main"}
    /\ meta = {"materialized_views", "data_quality", "sql_server_connection",
               "import_log"}
    /\ import_log = <<>> /\ data_freshness = <<>>
    /\ conn_info = {<<ServerConfig["host"], ServerConfig["database"]>>}
    /\ duck_tables = AppTables
    /\ NoScript
    /\ cred = NotCalled
    /\ NoNameCall
    /\ views = AppViews
    /\ materialized_views = <<>> /\ mv_key = FALSE /\ calls = <<>>
    /\ app = NotStarted

app_frame ==
    <<config_vars, source, schemas, meta, import_log, data_freshness,
      conn_info, prog, pc, idx, conn, tables, success_count, exit, trace,
      start_vars, first_error, runs, cred, name_vars, materialized_views,
      mv_key, calls>>

\* `streamlit run app.py`: conn = get_connection().
GetConnection ==
    /\ app.state = "start"
    /\ app' = [app EXCEPT !.state = "running",
                          !.read_only = get_connection.read_only]
    /\ UNCHANGED <<app_frame, duck_tables, views>>

\* The user picks a page of the sidebar; every page but AI Query runs its
\* queries through run_query.
Navigate ==
    /\ app.state = "running"
    /\ \E page \in Pages :
        LET r == Execute(app.read_only, PageQuery(page), duck_tables, views)
        IN  /\ app' = [app EXCEPT !.page = page]
            /\ IF page = AIQuery
               THEN UNCHANGED <<duck_tables, views>>
               ELSE duck_tables' = r.tables /\ views' = r.views
    /\ UNCHANGED app_frame

\* AI Query, the Ask button: the SQL the model generated is executed at once.
\* ok = FALSE: ollama.generate raises.
Ask ==
    /\ app.state = "running" /\ app.page = AIQuery
    /\ \E ok \in BOOLEAN, generated_sql \in Statements :
        LET r == Execute(app.read_only, generated_sql, duck_tables, views)
        IN  IF ~ok
            THEN /\ app' = [app EXCEPT !.query_error = "ollama",
                                       !.query_result = NoneVal]
                 /\ UNCHANGED <<duck_tables, views>>
            ELSE /\ app' = [app EXCEPT !.generated_sql = generated_sql,
                                       !.query_error = r.error,
                                       !.query_result =
                                           IF r.error = NoneVal THEN "rows"
                                           ELSE NoneVal]
                 /\ duck_tables' = r.tables
                 /\ views' = r.views
    /\ UNCHANGED app_frame

\* AI Query, the Re-run Modified Query button: the SQL the user edited is
\* executed; the session keeps it when it did not raise.
Rerun ==
    /\ app.state = "running" /\ app.page = AIQuery
    /\ app.generated_sql # NoSql
    /\ \E edited_sql \in Statements :
        LET r == Execute(app.read_only, edited_sql, duck_tables, views)
        IN  /\ app' = IF r.error = NoneVal
                      THEN [app EXCEPT !.generated_sql = edited_sql,
                                       !.query_result = "rows",
                                       !.query_error = NoneVal]
                      ELSE app
            /\ duck_tables' = r.tables
            /\ views' = r.views
    /\ UNCHANGED app_frame

AppNext == GetConnection \/ Navigate \/ Ask \/ Rerun

AppSpec == AppInit /\ [][AppNext]_vars

\* ================================================================= claims
IsImport(e) == e.op = "import"
IsSync(e) == e.op = "sync"
IsExec(e) == e.op = "exec"
Imports == SelectSeq(trace, IsImport)
Syncs == SelectSeq(trace, IsSync)
Execs == SelectSeq(trace, IsExec)
Last(seq) == seq[Len(seq)]

\* The phase of run() an entry of trace belongs to.
Phase(e) ==
    IF e.op = "import" THEN 2
    ELSE IF e.op = "exec"
         THEN (IF e.layer = "staging" THEN 3
               ELSE IF e.layer = "business" THEN 4 ELSE 5)
    ELSE IF e.op = "close" THEN 6
    ELSE 1
ExecsOf(layer) == {i \in DOMAIN trace : IsExec(trace[i]) /\ trace[i].layer = layer}

\* C1: run() keeps a fixed order.  When a table import has been attempted, all
\* six schemas and the metadata tables (materialized_views, data_quality,
\* sql_server_connection, import_log) exist; what run() has done is ordered by
\* phase (set-up, imports, staging files, business files, metrics files); and
\* when a file of a layer has been executed, every table of the list has been
\* attempted and every file of the layers before it has been executed.
C1_RunOrder ==
    prog = "init" =>
        /\ \A i, j \in DOMAIN trace : i < j => Phase(trace[i]) <= Phase(trace[j])
        /\ Imports # <<>> =>
              /\ AllSchemas \subseteq schemas
              /\ {"materialized_views", "data_quality", "sql_server_connection",
                  "import_log"} \subseteq meta
        /\ Execs # <<>> => Len(Imports) = Len(ImportTables)
        /\ ExecsOf("business") # {} =>
              Cardinality(ExecsOf("staging")) = Cardinality(ModelFiles["staging"])
        /\ ExecsOf("metrics") # {} =>
              Cardinality(ExecsOf("business")) = Cardinality(ModelFiles["business"])

\* C1's case: run() has reached the metrics files.
C1_Witness == prog = "init" /\ ExecsOf("metrics") # {} /\ Len(Imports) = 2

\* The row of import_log the claim expects of one import.
ExpectedLogRow(e) ==
    [table_name |-> e.target,
     row_count |-> IF e.raised THEN 0 ELSE Cardinality(e.after.rows),
     status |-> IF e.raised THEN ErrorStatus(e.outcome) ELSE Success]

\* C2: every call of import_table_from_sql_server appends exactly one row to
\* import_log and leaves the earlier rows alone: (target, rows loaded,
\* 'success') when the load completed and (target, 0, 'error: <message>') when
\* a step raised, the call raising exactly when a step did.
C2_OneLogRowPerImport ==
    /\ import_log = log0 \o [i \in 1..Len(Imports) |-> ExpectedLogRow(Imports[i])]
    /\ \A i \in 1..Len(Imports) :
          /\ Imports[i].raised <=> Imports[i].outcome # "none"
          /\ ~Imports[i].raised => Imports[i].after.exists

\* C2's case: a script whose imports logged one success and one error.
C2_Witness ==
    /\ Len(Imports) = 2
    /\ ~Imports[1].raised /\ Imports[1].after.rows # {}
    /\ Imports[2].raised
    /\ Len(import_log) = Len(log0) + 2

\* The sync_table calls of the running script that no later call on the same
\* table follows: what data_freshness holds for the table is theirs.
LastSyncOf(i) ==
    \A j \in DOMAIN Syncs : j > i => Syncs[j].name # Syncs[i].name

\* C3: each sync_table call on a non-empty source table returns normally and
\* leaves the table's outcome in data_freshness: ('success', the source row
\* count) when the load completed, ('failed: <error>', 0) when a step raised.
C3_SyncTableRecordsOutcome ==
    \A i \in DOMAIN Syncs :
        Syncs[i].src # {} =>
            /\ ~Syncs[i].raised
            /\ LastSyncOf(i) =>
                  /\ Syncs[i].name \in DOMAIN data_freshness
                  /\ data_freshness[Syncs[i].name] =
                        IF Syncs[i].outcome \in {"none", "metadata"}
                        THEN [row_count |-> Cardinality(Syncs[i].src),
                              status |-> Success]
                        ELSE [row_count |-> 0,
                              status |-> FailedStatus(Syncs[i].outcome)]

\* The calls of sync_table whose load completed and was recorded as 'success'
\* ("none": no step raised, the update of data_freshness included).
RecordedSuccesses == {i \in DOMAIN Syncs : Syncs[i].outcome = "none"}

\* The calls that found the source table empty and loaded nothing.
Skipped == {i \in DOMAIN Syncs : Syncs[i].outcome = "skip"}

\* C4: the number sync_all reports as synced successfully is the number of
\* tables of the list whose load completed and was recorded with 'success'; a
\* table whose sync failed is not counted.  (The empty tables sync_table
\* passes over are left aside: they are counted and nothing of them fails.)
C4_ReportedCountIsSuccesses ==
    (prog = "sync" /\ exit = "ok") =>
        success_count - Cardinality(Skipped) = Cardinality(RecordedSuccesses)

\* The DuckDB table a load writes.
TargetOf(e) == IF IsImport(e) THEN ImportTarget(e.target) ELSE TableKey(Raw, e.name)
IsLoad(e) == IsImport(e) \/ IsSync(e)
Loads == SelectSeq(trace, IsLoad)
Completed(e) == IsLoad(e) /\ e.outcome = "none"

\* C5: a successful load is a full refresh.  Right after it the target table
\* holds exactly the rows extracted in that call, whatever an earlier load
\* left there; and of two successful loads of one table, one right after the
\* other, from an unchanged source (the same rows at the same server time),
\* the second leaves the table as the first left it.
C5_FullRefresh ==
    /\ (trace # <<>> /\ Completed(Last(trace))) =>
          /\ TargetOf(Last(trace)) \in DOMAIN duck_tables
          /\ duck_tables[TargetOf(Last(trace))] = Last(trace).rows
    /\ \A i \in DOMAIN Loads :
          Completed(Loads[i]) =>
              /\ Loads[i].after = [exists |-> TRUE, rows |-> Loads[i].rows]
              /\ (/\ i > 1
                  /\ Completed(Loads[i - 1])
                  /\ TargetOf(Loads[i - 1]) = TargetOf(Loads[i])
                  /\ Loads[i - 1].src = Loads[i].src)
                 => Loads[i].after = Loads[i - 1].after

\* C5's case: a table loaded twice with success, the source changed in between.
C5_Witness ==
    /\ Len(Loads) = 2
    /\ Completed(Loads[1]) /\ Completed(Loads[2])
    /\ TargetOf(Loads[1]) = TargetOf(Loads[2])
    /\ Loads[1].rows # Loads[2].rows
    /\ Loads[1].rows \ Loads[2].rows # {}
    /\ duck_tables[TargetOf(Loads[2])] = Loads[2].rows

\* The names of the tables a script's loop has attempted, in order.
Attempted == [i \in DOMAIN Loads |-> Loads[i].name]
IsPrefix(a, b) == Len(a) <= Len(b) /\ a = SubSeq(b, 1, Len(a))

\* C6: both loaders attempt every table of their list exactly once, in list
\* order, whatever the outcome of the tables before: what has been attempted
\* is always the start of the list, a table that raised does not end the
\* script, and a script that ends normally has attempted the whole list.
C6_EveryTableAttempted ==
    /\ prog = "init" =>
          /\ IsPrefix(Attempted, ImportTables)
          /\ (Execs # <<>> \/ exit = "ok") => Attempted = ImportTables
          /\ Loads # <<>> => exit # "exception"
    /\ prog = "sync" =>
          /\ IsPrefix(Attempted, tables)
          /\ pc = 0 /\ Last(trace).op = "close" => Attempted = tables
          /\ Loads # <<>> => exit # "exception"
          /\ pc # 0 => idx = Len(Attempted) + 1

\* C6's case: sync_all ended normally although sync_table raised on the first
\* table, and went on to the second.
C6_Witness ==
    /\ prog = "sync" /\ exit = "ok"
    /\ Len(Loads) = 2
    /\ Loads[1].raised

Layers == {"staging", "business", "metrics"}
NamesOf(layer) == {trace[i].name : i \in ExecsOf(layer)}

\* C7: the files of a layer are executed in ascending file-name order; a file
\* whose execution raises does not end the run, which goes on with the next
\* step; and a run() that went past the connection test ends normally, with
\* every file of every layer executed once and the connection closed.
C7_ViewFilesAllExecuted ==
    prog = "init" =>
        /\ \A layer \in Layers : \A i, j \in ExecsOf(layer) :
              i < j => StrLess(trace[i].name, trace[j].name)
        /\ Execs # <<>> => exit # "exception"
        /\ (first_error # <<>> /\ exit = "") =>
              ENABLED (CreateStagingViews \/ CreateBusinessViews
                       \/ CreateMetrics \/ Close)
        /\ exit = "ok" =>
              /\ conn = "closed"
              /\ \A layer \in Layers :
                    /\ NamesOf(layer) = ModelFiles[layer]
                    /\ Cardinality(ExecsOf(layer)) = Cardinality(ModelFiles[layer])

\* C7's case: the first staging file raised, and run() ended normally.
C7_Witness ==
    /\ prog = "init" /\ exit = "ok"
    /\ first_error = <<"P", "a", "y">> \o DotSql
    /\ Len(Execs) = 4

\* C8: a failed connection test ends run() with the exception, and that run
\* drops and imports no table, writes no import_log row and executes no file.
C8_FailedTestStopsRun ==
    \A i \in DOMAIN trace :
        (trace[i].op = "setup_sql_server_attachment" /\ trace[i].raised) =>
            /\ i = Len(trace)
            /\ pc = 0 /\ exit = "exception"
            /\ duck_tables = tables0
            /\ import_log = log0
            /\ Loads = <<>> /\ Execs = <<>>

\* C8's case: run() ended by the failed connection test.
C8_Witness ==
    /\ prog = "init" /\ exit = "exception"
    /\ Last(trace).op = "setup_sql_server_attachment"

\* A variable or key that is set and not empty.
IsSet(d, k) == k \in DOMAIN d /\ d[k] # ""
\* The value the claim gives a credential: the environment's when set, else
\* the config's (NoneVal when the config has none).
Chosen(var, key) ==
    IF IsSet(env, var) THEN env[var]
    ELSE IF key \in DOMAIN sql_config THEN sql_config[key] ELSE NoneVal

\* C9: connect_sql_server takes the username and the password each from its
\* environment variable when that is set and not empty, else from the config;
\* with one of the two missing from both places it raises ValueError and
\* creates no engine.
C9_CredentialsEnvThenConfig ==
    cred # NotCalled =>
        IF \/ ~(IsSet(env, "SQL_SERVER_USERNAME") \/ IsSet(sql_config, "username"))
           \/ ~(IsSet(env, "SQL_SERVER_PASSWORD") \/ IsSet(sql_config, "password"))
        THEN cred = [exc |-> "ValueError", username |-> NoneVal,
                     password |-> NoneVal]
        ELSE cred = [exc |-> "",
                     username |-> Chosen("SQL_SERVER_USERNAME", "username"),
                     password |-> Chosen("SQL_SERVER_PASSWORD", "password")]

\* C9's case: the username comes from the environment and the password, whose
\* variable is set but empty, from the config.
C9_Witness ==
    /\ cred = [exc |-> "", username |-> "env_user", password |-> "cfg_pw"]
    /\ IsSet(sql_config, "username")
    /\ "SQL_SERVER_PASSWORD" \in DOMAIN env

\* C10: an import of a table whose name contains 'activity_log', whatever the
\* case, reads exactly the rows whose EnteredDate lies within the last
\* activity_log_days days, for every configured activity_log_days; the import
\* of any other table reads every row.
C10_ActivityLogWindow ==
    \A i \in DOMAIN Imports :
        Imports[i].outcome \notin {"connect", "read"} =>
            Imports[i].rows =
                IF Contains(Lower(Imports[i].name), activity_log)
                THEN {r \in Imports[i].src :
                        r <= Get(sync_config, "activity_log_days",
                                 DefaultActivityLogDays)}
                ELSE Imports[i].src

\* C11: whatever the name, what sanitize_duckdb_name returns holds no space,
\* no '$', no '-', no single quote and no upper-case letter, and does not begin
\* with a digit.
C11_SanitizedName ==
    sanitized # NotSanitized =>
        /\ \A i \in DOMAIN sanitized :
              sanitized[i] \notin {" ", "$", "-", "'"}
                                  \cup {UpperChars[k] : k \in DOMAIN UpperChars}
        /\ sanitized # <<>> =>
              sanitized[1] \notin {"0", "1", "2", "3", "4", "5", "6", "7", "8", "9"}

\* C11's case: a name that begins with a digit and holds a space and an
\* upper-case letter.
C11_Witness ==
    /\ raw_name = <<"1", " ", "A">>
    /\ sanitized = <<"t", "_", "1", "_", "a">>

\* C12: a cache_view(v) whose source view exists and in which the environment
\* makes no step fail leaves cache.<table> holding exactly the rows of the view
\* (of schema business when v has no dot, else of the schema before the dot),
\* whatever cache table of that name was there, and records (v, the row count
\* of the cache table, 'success') in materialized_views.
C12_CacheViewMaterializes ==
    \A i \in DOMAIN calls :
        (calls[i].found /\ calls[i].fail = "none") =>
            /\ Snapshot(calls[i].after, calls[i].key)
                   = [exists |-> TRUE, rows |-> calls[i].src]
            /\ RowsOf(calls[i].mv_after, calls[i].view_name)
                   = <<[view_name |-> calls[i].view_name,
                        row_count |-> Cardinality(calls[i].src),
                        refresh_status |-> Success]>>

\* C13: a cache_view whose source view does not exist changes nothing: the
\* tables (a cache table of that name included) and materialized_views are as
\* before the call, the connection is closed and nothing is raised.
C13_MissingViewChangesNothing ==
    \A i \in DOMAIN calls :
        (Unpacks(calls[i].view_name) /\ ~calls[i].found
            /\ calls[i].fail # "check") =>
            /\ calls[i].after = calls[i].before
            /\ calls[i].mv_after = calls[i].mv_before
            /\ calls[i].conn = "closed"
            /\ ~calls[i].raised

\* C13's case: the view is not there, its cache table and its row are.
C13_Witness ==
    \E i \in DOMAIN calls :
        /\ calls[i].view_name = Business \o <<".">> \o ViewX
        /\ calls[i].at = "missing"
        /\ calls[i].key \in DOMAIN calls[i].before
        /\ RowsOf(calls[i].mv_before, calls[i].view_name) # <<>>
        /\ calls[i].conn = "closed"

\* C14: a cache_view in which a step raises (the unpacking of a name with more
\* than one dot included) records (v, 0, 'failed: <message>') in
\* materialized_views, closes the connection and raises nothing to its caller.
C14_FailureRecorded ==
    \A i \in DOMAIN calls :
        calls[i].at \notin {"none", "missing"} =>
            /\ RowsOf(calls[i].mv_after, calls[i].view_name)
                   = <<[view_name |-> calls[i].view_name, row_count |-> 0,
                        refresh_status |-> FailedStatus(calls[i].at)]>>
            /\ calls[i].conn = "closed"
            /\ ~calls[i].raised

\* The calls for one view name that went past the check of the view, and what
\* such a call has to record.
OutcomesOf(v) ==
    SelectSeq(calls, LAMBDA c : c.view_name = v /\ c.at # "missing")
OutcomeRow(c) ==
    IF c.at \in {"none", "record"}
    THEN [view_name |-> c.view_name, row_count |-> Cardinality(c.src),
          refresh_status |-> Success]
    ELSE [view_name |-> c.view_name, row_count |-> 0,
          refresh_status |-> FailedStatus(c.at)]

\* C15: on a database the initializer prepared, after any cache_view calls,
\* materialized_views holds at most one row for a view name, and, once a call
\* for that name had an outcome, exactly the outcome of the latest one.
C15_OneRowPerView ==
    \A v \in ViewNames :
        /\ Len(RowsOf(materialized_views, v)) <= 1
        /\ OutcomesOf(v) # <<>> =>
              RowsOf(materialized_views, v) = <<OutcomeRow(Last(OutcomesOf(v)))>>

\* C16: the dashboard opens DuckDB read-only, and whatever page is shown and
\* whatever SQL the model generates or the user edits on the AI Query page,
\* every table, every view and every row of the database stays as it was.
C16_DashboardReadOnly ==
    app.state = "running" =>
        /\ app.read_only
        /\ duck_tables = AppTables
        /\ views = AppViews

\* C16's case: the model generated a DROP TABLE of a table that is there, and
\* the dashboard executed it.
C16_Witness ==
    /\ app.state = "running" /\ app.page = AIQuery
    /\ app.generated_sql = [kind |-> "drop_table",
                            target |-> TableKey(Raw, ActivityLog)]
    /\ app.query_error = "read-only"

\* The step just taken was a load that raised before its DROP: while
\* connecting, counting or reading.
FailedBeforeDrop ==
    /\ Len(trace') = Len(trace) + 1
    /\ IsLoad(Last(trace'))
    /\ Last(trace').outcome \in {"connect", "count", "read"}

\* C17: a load that fails before the DROP of its target leaves every table
\* of the database, the target and its rows included, as it was; all it
\* changes is the status table, which gets the failure row: a new last row of
\* import_log for import_table_from_sql_server, the row of the table in
\* data_freshness for sync_table (nothing, where no such status table exists).
C17_FailureBeforeDropKeepsTable ==
    [][FailedBeforeDrop =>
          /\ duck_tables' = duck_tables
          /\ schemas' = schemas /\ meta' = meta /\ conn_info' = conn_info
          /\ IF IsImport(Last(trace'))
             THEN /\ data_freshness' = data_freshness
                  /\ import_log' =
                        IF "import_log" \in meta
                        THEN Append(import_log, ExpectedLogRow(Last(trace')))
                        ELSE import_log
             ELSE /\ import_log' = import_log
                  /\ data_freshness' =
                        IF "data_freshness" \in meta
                        THEN [t \in DOMAIN data_freshness \cup {Last(trace').name} |->
                                 IF t = Last(trace').name
                                 THEN [row_count |-> 0,
                                       status |-> FailedStatus(Last(trace').outcome)]
                                 ELSE data_freshness[t]]
                        ELSE data_freshness]_vars

\* C17's case: a table that was loaded, then a refresh of it that failed while
\* reading the source; the table and its rows are still there.
C17_Witness ==
    /\ Len(Loads) = 2
    /\ Completed(Loads[1])
    /\ Loads[1].rows # {}
    /\ TargetOf(Loads[2]) = TargetOf(Loads[1])
    /\ Loads[2].outcome = "read"
    /\ Snapshot(duck_tables, TargetOf(Loads[2]))
           = [exists |-> TRUE, rows |-> Loads[1].rows]

\* C18: once a load of a raw table has completed, the table stays available:
\* whatever refreshes of it followed, with success or not, the table exists and
\* holds the rows of some completed load of it.
C18_LoadedTableStaysAvailable ==
    \A i \in DOMAIN Loads :
        Completed(Loads[i]) =>
            /\ TargetOf(Loads[i]) \in DOMAIN duck_tables
            /\ \E j \in DOMAIN Loads :
                  /\ Completed(Loads[j])
                  /\ TargetOf(Loads[j]) = TargetOf(Loads[i])
                  /\ duck_tables[TargetOf(Loads[i])] = Loads[j].rows

====
